---- MODULE Spec2Model ----
(***************************************************************************)
(* canvasbot daemon: the poll loop of main, one poll cycle (runner), the   *)
(* paginated fetch (Canvas::get_all_submissions) and the sandbox lifecycle *)
(* of one submission (start_container_runner), src/src/main.rs.            *)
(*                                                                         *)
(* Every .await of the code is one step.  The Docker daemon and the Canvas *)
(* server are the environment: the result of each call is drawn from the   *)
(* outcomes the call can produce.  Each spawned execution keeps the list   *)
(* of the outbound calls it has made, in order.                            *)
(***************************************************************************)
EXTENDS Integers, Sequences, FiniteSets, TLC

\* ---------------------------------------------------------------- bounds
\* pages the server links together in one listing
MaxPages == 2
\* submissions on one page of the listing
MaxPageLen == 2
\* eligible submissions returned by one listing
MaxSubs == 2

\* ------------------------------------------------------- input domains
\* user ids of the submissions the server holds
Users == {1, 2}

\* workflow states the server reports
WorkflowStates == {"submitted", "graded"}

\* A submission as the server sends it.  attachments is the number of
\* attachment references in the JSON object; struct Submission has no
\* field for it, so deserialisation drops it and no code reads it.
SubmissionUniverse ==
    { [user_id |-> u, workflow_state |-> w, attachments |-> u - 1] :
        u \in Users, w \in WorkflowStates }

RECURSIVE SeqsUpTo(_, _)
SeqsUpTo(S, n) ==
    IF n = 0 THEN {<<>>}
    ELSE LET shorter == SeqsUpTo(S, n - 1)
         IN  shorter \cup { Append(s, x) : s \in { t \in shorter : Len(t) = n - 1 }, x \in S }

\* the bodies a page of the listing can have
PageSet == SeqsUpTo(SubmissionUniverse, MaxPageLen)

\* ------------------------------------------------------------ constants
StartupErrorComment == "Test environment startup error"
StartFailedComment == "Failed to start container"
TimeoutComment == "Test timeout"

\* format!("lab3-{}", submission.user_id)
ContainerName(user_id) == <<"lab3", user_id>>

\* ---------------------------------------------------------------- state
VARIABLES
    mainPc,        \* where main/runner is: "fetch", "spawn", "join", "tick"
    next_url,      \* get_all_submissions: <<>> is None, <<p>> is Some(page p)
    submissions,   \* the Vec get_all_submissions accumulates, then runner's list
    fetchResult,   \* result of this cycle's get_all_submissions
    tasks,         \* the executions spawned in this cycle, in spawn order
    joined         \* number of handles runner has awaited

vars == <<mainPc, next_url, submissions, fetchResult, tasks, joined>>

\* state of one pipeline run (src/src/worker.rs)
VARIABLES
    wPc,           \* "build" (add_task), "run" (inside Worker::run), "done", "panicked"
    wTasks,        \* Worker.tasks: the Tasks in insertion order
    variables,     \* the HashMap behind Arc<Mutex<..>>: name -> Option<Value>
    results,       \* Worker.results: the IndexMap, as its entries in index order
    taskIdx,       \* position of `for task in &mut self.tasks`
    cmdIdx,        \* position of `for command in &self.commands` in that Task
    log            \* the commands executed so far, in order

wvars == <<wPc, wTasks, variables, results, taskIdx, cmdIdx, log>>

\* no Worker exists
WorkerParked ==
    /\ wPc = "none"
    /\ wTasks = <<>>
    /\ variables = <<>>
    /\ results = <<>>
    /\ taskIdx = 0
    /\ cmdIdx = 0
    /\ log = <<>>

\* state of one listing of the submissions (src/src/canvas.rs)
VARIABLES
    cPc,           \* "load" (config not read yet), "send", "receive", "ok", "err"
    fetch_filter,  \* Config.fetch_filter
    cNextUrl,      \* get_all_sub's next_url: <<>> is None, <<u>> is Some(u)
    cSubmissions,  \* the Vec get_all_sub accumulates and returns
    fetched,       \* every submission the server has sent in this listing, in order
    requests,      \* the GET requests sent, in order
    response       \* the response being processed: <<>> or <<r>>

cvars == <<cPc, fetch_filter, cNextUrl, cSubmissions, fetched, requests, response>>

\* no listing is under way
CanvasParked ==
    /\ cPc = "none"
    /\ fetch_filter = {}
    /\ cNextUrl = <<>>
    /\ cSubmissions = <<>>
    /\ fetched = <<>>
    /\ requests = <<>>
    /\ response = <<>>

\* two Tasks that share one store and run concurrently (src/src/worker.rs)
VARIABLES
    lProcs,        \* per Task: its commands, its position and what it holds locally
    holder,        \* the Task holding the MutexGuard of the store, 0 if none
    poisoned,      \* the Mutex is poisoned: a Task panicked while holding the guard
    lStore,        \* the HashMap behind the Mutex
    added          \* sum of the deltas of the VariableOps applied to count so far

lvars == <<lProcs, holder, poisoned, lStore, added>>

\* no Tasks are running concurrently
LockParked ==
    /\ lProcs = <<>>
    /\ holder = 0
    /\ poisoned = FALSE
    /\ lStore = <<>>
    /\ added = 0

\* what each specification leaves alone
notDaemon == <<wvars, cvars, lvars>>
notWorker == <<vars, cvars, lvars>>
notCanvas == <<vars, wvars, lvars>>
notLock == <<vars, wvars, cvars>>
allvars == <<vars, wvars, cvars, lvars>>

Terminal == {"done", "panicked"}

\* page_submissions.into_iter().filter(|s| s.workflow_state == "submitted")
RECURSIVE FilterSubmitted(_)
FilterSubmitted(page) ==
    IF page = <<>> THEN <<>>
    ELSE IF Head(page).workflow_state = "submitted"
         THEN <<Head(page)>> \o FilterSubmitted(Tail(page))
         ELSE FilterSubmitted(Tail(page))

\* a Docker call whose Result decides what the execution does next
DockerCall(op, user_id, res) ==
    [op |-> op, arg |-> ContainerName(user_id), res |-> res]

\* a Docker call whose Result is only printed (stop_container, remove_container)
BestEffortCall(op, user_id) ==
    [op |-> op, arg |-> ContainerName(user_id)]

\* canvas.update_score(user_id, score, comment).  Its Result is discarded
\* (`let _ =`) or only printed, so the call is recorded without it.
UpdateScoreCall(user_id, score, comment) ==
    [op |-> "update_score", arg |-> <<user_id, score, comment>>]

NewTask(sub) == [sub |-> sub, pc |-> "create", calls |-> <<>>]

Init ==
    /\ mainPc = "fetch"
    /\ next_url = <<1>>
    /\ submissions = <<>>
    /\ fetchResult = "pending"
    /\ tasks = <<>>
    /\ joined = 0

\* ------------------------------------------- Canvas::get_all_submissions
\* mutant: a failed fetch is passed over and the partial list is processed
RunnerAfterFetchPartial(result) == "spawn"

\* What runner does with the result of get_all_submissions: Err returns
\* from runner (back to main's interval.tick()), Ok goes on to the spawn loop.
RunnerAfterFetch(result) == IF result = "err" THEN "tick" ELSE "spawn"

\* One iteration of `while let Some(url) = next_url`: the GET, the Link
\* header, the JSON body.  `?` on either await returns Err and drops the Vec;
\* the model leaves the dropped Vec in `submissions`, where nothing reads it
\* before the next cycle clears it.
FetchPage ==
    /\ mainPc = "fetch"
    /\ next_url # <<>>
    /\ \E outcome \in {"send_err", "json_err", "ok"}, hasNext \in BOOLEAN, page \in PageSet :
         LET p == next_url[1]
             link == IF hasNext THEN <<p + 1>> ELSE <<>>
             got == submissions \o FilterSubmitted(page)
         IN  \/ /\ outcome = "send_err"
                /\ fetchResult' = "err"
                /\ mainPc' = RunnerAfterFetch("err")
                /\ UNCHANGED <<next_url, submissions>>
             \/ /\ outcome = "json_err"
                /\ hasNext => p < MaxPages
                /\ next_url' = link
                /\ fetchResult' = "err"
                /\ mainPc' = RunnerAfterFetch("err")
                /\ UNCHANGED submissions
             \/ /\ outcome = "ok"
                /\ hasNext => p < MaxPages
                /\ Len(got) <= MaxSubs
                /\ next_url' = link
                /\ submissions' = got
                /\ IF hasNext
                   THEN UNCHANGED <<fetchResult, mainPc>>
                   ELSE /\ fetchResult' = "ok"
                        /\ mainPc' = RunnerAfterFetch("ok")
    /\ UNCHANGED <<tasks, joined>>

\* ------------------------------------------------------------- runner
\* mutant: the spawn loop stops after the first submission
AllSpawnedFirstOnly == Len(tasks) >= 1 \/ Len(submissions) = 0

\* the `for submission in submissions` loop has spawned every submission
AllSpawned == Len(tasks) = Len(submissions)

\* tokio::spawn(async move { start_container_runner(..., submission) })
Spawn ==
    /\ mainPc = "spawn"
    /\ ~AllSpawned
    /\ tasks' = Append(tasks, NewTask(submissions[Len(tasks) + 1]))
    /\ UNCHANGED <<mainPc, next_url, submissions, fetchResult, joined>>

\* the spawn loop ends and the join loop begins
SpawnDone ==
    /\ mainPc = "spawn"
    /\ AllSpawned
    /\ mainPc' = "join"
    /\ UNCHANGED <<next_url, submissions, fetchResult, tasks, joined>>

\* mutant: the handles are dropped without being awaited
JoinReadyDetached(i) == TRUE

\* handle.await completes when the task has returned or panicked
JoinReady(i) == tasks[i].pc \in Terminal

\* handle.await.unwrap_or_else(|e| eprintln!(...)): a JoinError is logged
Join ==
    /\ mainPc = "join"
    /\ joined < Len(tasks)
    /\ JoinReady(joined + 1)
    /\ joined' = joined + 1
    /\ UNCHANGED <<mainPc, next_url, submissions, fetchResult, tasks>>

\* every handle awaited: runner returns to main
RunnerReturn ==
    /\ mainPc = "join"
    /\ joined = Len(tasks)
    /\ mainPc' = "tick"
    /\ UNCHANGED <<next_url, submissions, fetchResult, tasks, joined>>

\* interval.tick().await, then the next runner call starts a new fetch
Tick ==
    /\ mainPc = "tick"
    /\ mainPc' = "fetch"
    /\ next_url' = <<1>>
    /\ submissions' = <<>>
    /\ fetchResult' = "pending"
    /\ tasks' = <<>>
    /\ joined' = 0

\* ------------------------------------------------ start_container_runner
\* where the execution goes after each call returns
AfterCreate(res) == IF res = "err" THEN "score_create" ELSE "start"
AfterScoreCreate == "start"
AfterStart(res) == IF res = "err" THEN "score_start" ELSE "wait"
\* mutant: the `return` after the start failure report is missing
AfterScoreStartFallThrough == "wait"
AfterScoreStart == "done"
\* mutant: the wait has no deadline, the execution stays in it
AfterWaitUnbounded(res) == IF res = "timeout" THEN "wait_forever" ELSE "done"
AfterWait(res) == IF res = "timeout" THEN "stop" ELSE "done"
\* mutant: a failed stop gives up on the removal
AfterStopGiveUp(res) == IF res = "err" THEN "score_timeout" ELSE "remove"
AfterStop(res) == "remove"
AfterRemove(res) == "score_timeout"
AfterScoreTimeout(res) == "done"

\* task i made `call` and moves to `pc`
Step(ts, i, call, pc) ==
    [ts EXCEPT ![i].calls = Append(@, call), ![i].pc = pc]

Results == {"ok", "err"}

\* timeout(lab_timeout, wait_stream.next()): Ok(Some(Ok)), Ok(Some(Err)),
\* Ok(None), Err(Elapsed)
WaitResults == {"exited", "err", "ended", "timeout"}

TaskFrame == UNCHANGED <<mainPc, next_url, submissions, fetchResult, joined>>

CreateContainer(i) ==
    /\ tasks[i].pc = "create"
    /\ \E res \in Results :
         tasks' = Step(tasks, i, DockerCall("create_container", tasks[i].sub.user_id, res),
                       AfterCreate(res))
    /\ TaskFrame

ScoreCreateError(i) ==
    /\ tasks[i].pc = "score_create"
    /\ \E res \in Results :
         tasks' = Step(tasks, i,
                       UpdateScoreCall(tasks[i].sub.user_id, 0, StartupErrorComment),
                       AfterScoreCreate)
    /\ TaskFrame

StartContainer(i) ==
    /\ tasks[i].pc = "start"
    /\ \E res \in Results :
         tasks' = Step(tasks, i, DockerCall("start_container", tasks[i].sub.user_id, res),
                       AfterStart(res))
    /\ TaskFrame

ScoreStartError(i) ==
    /\ tasks[i].pc = "score_start"
    /\ \E res \in Results :
         tasks' = Step(tasks, i,
                       UpdateScoreCall(tasks[i].sub.user_id, 0, StartFailedComment),
                       AfterScoreStart)
    /\ TaskFrame

WaitContainer(i) ==
    /\ tasks[i].pc = "wait"
    /\ \E res \in WaitResults :
         tasks' = Step(tasks, i, DockerCall("wait_container", tasks[i].sub.user_id, res),
                       AfterWait(res))
    /\ TaskFrame

StopContainer(i) ==
    /\ tasks[i].pc = "stop"
    /\ \E res \in Results :
         tasks' = Step(tasks, i, BestEffortCall("stop_container", tasks[i].sub.user_id),
                       AfterStop(res))
    /\ TaskFrame

RemoveContainer(i) ==
    /\ tasks[i].pc = "remove"
    /\ \E res \in Results :
         tasks' = Step(tasks, i, BestEffortCall("remove_container", tasks[i].sub.user_id),
                       AfterRemove(res))
    /\ TaskFrame

ScoreTimeout(i) ==
    /\ tasks[i].pc = "score_timeout"
    /\ \E res \in Results :
         tasks' = Step(tasks, i,
                       UpdateScoreCall(tasks[i].sub.user_id, 0, TimeoutComment),
                       AfterScoreTimeout(res))
    /\ TaskFrame

\* mutant: a panic in one task aborts every sibling that is still running
PanicEffectAbortAll(ts, i) ==
    [j \in DOMAIN ts |->
        IF j = i \/ ts[j].pc \notin Terminal THEN [ts[j] EXCEPT !.pc = "panicked"] ELSE ts[j]]

\* what a panic inside task i does to the spawned tasks: tokio catches it
\* in that task and hands it to the JoinHandle as a JoinError
PanicEffect(ts, i) == [ts EXCEPT ![i].pc = "panicked"]

\* a call made by the execution panics instead of returning
Panic(i) ==
    /\ tasks[i].pc \notin Terminal
    /\ tasks' = PanicEffect(tasks, i)
    /\ TaskFrame

\* any step of execution i
TaskStep(i) ==
    \/ CreateContainer(i)
    \/ ScoreCreateError(i)
    \/ StartContainer(i)
    \/ ScoreStartError(i)
    \/ WaitContainer(i)
    \/ StopContainer(i)
    \/ RemoveContainer(i)
    \/ ScoreTimeout(i)
    \/ Panic(i)

Next ==
    \/ FetchPage /\ UNCHANGED notDaemon
    \/ Spawn /\ UNCHANGED notDaemon
    \/ SpawnDone /\ UNCHANGED notDaemon
    \/ Join /\ UNCHANGED notDaemon
    \/ RunnerReturn /\ UNCHANGED notDaemon
    \/ Tick /\ UNCHANGED notDaemon
    \/ \E i \in DOMAIN tasks : CreateContainer(i) /\ UNCHANGED notDaemon
    \/ \E i \in DOMAIN tasks : ScoreCreateError(i) /\ UNCHANGED notDaemon
    \/ \E i \in DOMAIN tasks : StartContainer(i) /\ UNCHANGED notDaemon
    \/ \E i \in DOMAIN tasks : ScoreStartError(i) /\ UNCHANGED notDaemon
    \/ \E i \in DOMAIN tasks : WaitContainer(i) /\ UNCHANGED notDaemon
    \/ \E i \in DOMAIN tasks : StopContainer(i) /\ UNCHANGED notDaemon
    \/ \E i \in DOMAIN tasks : RemoveContainer(i) /\ UNCHANGED notDaemon
    \/ \E i \in DOMAIN tasks : ScoreTimeout(i) /\ UNCHANGED notDaemon
    \/ \E i \in DOMAIN tasks : Panic(i) /\ UNCHANGED notDaemon

\* the daemon starts with no pipeline run in it
DaemonInit == Init /\ WorkerParked /\ CanvasParked /\ LockParked

\* the daemon alone: no Worker is constructed (main.rs never builds one)
Spec == DaemonInit /\ [][Next]_allvars

TypeOK ==
    /\ mainPc \in {"fetch", "spawn", "join", "tick"}
    /\ fetchResult \in {"pending", "ok", "err"}
    /\ Len(next_url) <= 1
    /\ joined \in 0..Len(tasks)
    /\ Len(submissions) <= MaxSubs

\* -------------------------------------------------- reading call lists
Calls(i) == tasks[i].calls
UserOf(i) == tasks[i].sub.user_id

\* the calls made after the k-th one
Suffix(calls, k) == SubSeq(calls, k + 1, Len(calls))

SameCall(a, b) == a.op = b.op /\ a.arg = b.arg

IsPrefix(s, t) ==
    /\ Len(s) <= Len(t)
    /\ \A k \in 1..Len(s) : SameCall(s[k], t[k])

CountOp(calls, op) == Cardinality({ k \in DOMAIN calls : calls[k].op = op })

IsReport(c, comment) == c.op = "update_score" /\ c.arg[3] = comment

CountReport(calls, comment) ==
    Cardinality({ k \in DOMAIN calls : IsReport(calls[k], comment) })

IsResult(c, op, res) == c.op = op /\ c.res = res

AllTerminal == \A i \in DOMAIN tasks : tasks[i].pc \in Terminal

LifecycleOps == {"start_container", "wait_container", "stop_container", "remove_container"}

\* ----------------------------------------------------------------- C1
\* C1 (as claimed): once create_container has failed for a submission, the
\* execution makes no start, wait, stop or remove call for it, and it ends
\* with the report (0, "Test environment startup error").
C1CreateFailureTerminal ==
    \A i \in DOMAIN tasks : \A k \in DOMAIN Calls(i) :
        IsResult(Calls(i)[k], "create_container", "err") =>
            /\ \A m \in DOMAIN Calls(i) : m > k => Calls(i)[m].op \notin LifecycleOps
            /\ tasks[i].pc = "done" =>
                 IsPrefix(Suffix(Calls(i), k),
                          <<UpdateScoreCall(UserOf(i), 0, StartupErrorComment)>>)

\* ----------------------------------------------------------------- C2
TimeoutCleanup(u) ==
    << BestEffortCall("stop_container", u),
       BestEffortCall("remove_container", u),
       UpdateScoreCall(u, 0, TimeoutComment) >>

\* the position of an execution that has made n calls of the cleanup
TimeoutPc(n) ==
    IF n = 0 THEN "stop" ELSE IF n = 1 THEN "remove" ELSE IF n = 2 THEN "score_timeout" ELSE "done"

\* C2: after the wait has timed out the execution calls stop, remove and
\* update_score(0, "Test timeout"), in that order, each once and nothing
\* else; whatever stop and remove returned it is at the next of the three
\* (unless it panicked), and when it has returned all three were made.
C2TimeoutStopRemoveReport ==
    \A i \in DOMAIN tasks : \A k \in DOMAIN Calls(i) :
        IsResult(Calls(i)[k], "wait_container", "timeout") =>
            LET rest == Suffix(Calls(i), k)
            IN  /\ IsPrefix(rest, TimeoutCleanup(UserOf(i)))
                /\ tasks[i].pc # "panicked" => tasks[i].pc = TimeoutPc(Len(rest))
                /\ CountOp(Calls(i), "stop_container") = (IF Len(rest) >= 1 THEN 1 ELSE 0)
                /\ CountOp(Calls(i), "remove_container") = (IF Len(rest) >= 2 THEN 1 ELSE 0)
                /\ CountReport(Calls(i), TimeoutComment) = (IF Len(rest) >= 3 THEN 1 ELSE 0)

\* a timed-out execution has returned after the three calls
C2Witness ==
    \E i \in DOMAIN tasks :
        /\ tasks[i].pc = "done"
        /\ \E k \in DOMAIN Calls(i) : IsResult(Calls(i)[k], "wait_container", "timeout")
        /\ IsReport(Calls(i)[Len(Calls(i))], TimeoutComment)

\* ----------------------------------------------------------------- C3
\* C3: after start_container has failed the execution makes exactly one
\* more call, update_score(0, "Failed to start container"), and returns; it
\* never calls wait, stop or remove.
C3StartFailureTerminal ==
    \A i \in DOMAIN tasks : \A k \in DOMAIN Calls(i) :
        IsResult(Calls(i)[k], "start_container", "err") =>
            LET rest == Suffix(Calls(i), k)
            IN  /\ IsPrefix(rest, <<UpdateScoreCall(UserOf(i), 0, StartFailedComment)>>)
                /\ tasks[i].pc # "panicked" =>
                     tasks[i].pc = (IF rest = <<>> THEN "score_start" ELSE "done")
                /\ CountReport(Calls(i), StartFailedComment) = Len(rest)
                /\ \A m \in DOMAIN Calls(i) :
                     Calls(i)[m].op \notin {"wait_container", "stop_container", "remove_container"}

\* an execution whose start failed has reported it and returned
C3Witness ==
    \E i \in DOMAIN tasks :
        /\ tasks[i].pc = "done"
        /\ \E k \in DOMAIN Calls(i) : IsResult(Calls(i)[k], "start_container", "err")
        /\ IsReport(Calls(i)[Len(Calls(i))], StartFailedComment)

\* ----------------------------------------------------------------- C4
\* C4: a step that begins a fetch is taken from main's interval.tick(), and
\* at that moment every execution spawned in the cycle that ends has
\* returned or panicked and runner has awaited every handle.
C4FetchAfterAllTerminal ==
    [][ (mainPc' = "fetch" /\ mainPc # "fetch") =>
            /\ mainPc = "tick"
            /\ AllTerminal
            /\ joined = Len(tasks)
            /\ fetchResult = "ok" => Len(tasks) = Len(submissions) ]_vars

\* main is at the tick after a cycle whose two executions have both ended
C4Witness ==
    /\ mainPc = "tick"
    /\ fetchResult = "ok"
    /\ Len(tasks) >= 2
    /\ joined = Len(tasks)
    /\ AllTerminal

\* ----------------------------------------------------------------- C5
\* C5: when get_all_submissions has failed, on whichever page, runner has
\* returned to main's tick without spawning an execution (so without a
\* sandbox call or score report), and the tick that leads to the next
\* fetch can be taken.
C5FetchFailureSkipsCycle ==
    fetchResult = "err" =>
        /\ mainPc = "tick"
        /\ tasks = <<>>
        /\ joined = 0
        /\ ENABLED Tick

\* the fetch failed on a continuation page, after submissions were collected
C5Witness ==
    /\ fetchResult = "err"
    /\ submissions # <<>>
    /\ next_url # <<1>>

\* ----------------------------------------------------------------- C6
\* C6: a step of one execution (a failed call, a panic) changes no other
\* execution; an execution that has not ended can always take its next step
\* whatever state its siblings are in; and once all have ended, panicked
\* ones included, runner can await the next handle or return.
C6SiblingsIsolated ==
    [][ /\ \A i \in DOMAIN tasks : tasks[i].pc \notin Terminal => ENABLED TaskStep(i)
        /\ (mainPc = "join" /\ AllTerminal) => ENABLED (Join \/ RunnerReturn)
        /\ \A i \in DOMAIN tasks \cap DOMAIN tasks' :
             tasks'[i] # tasks[i] =>
                \A j \in (DOMAIN tasks \cap DOMAIN tasks') \ {i} : tasks'[j] = tasks[j] ]_vars

\* one execution panicked, its sibling went through the whole timeout
\* cleanup and returned, and runner has awaited both and returned
C6Witness ==
    /\ mainPc = "tick"
    /\ \E i, j \in DOMAIN tasks :
         /\ tasks[i].pc = "panicked"
         /\ tasks[j].pc = "done"
         /\ CountReport(Calls(j), TimeoutComment) = 1

\* ----------------------------------------------------------------- C7
\* C7: the executions spawned so far are, in order, the first submissions
\* of the fetched list, one execution per submission, and when the spawn
\* loop is over there are exactly as many as the fetch returned.
C7OneExecutionPerSubmission ==
    /\ fetchResult # "ok" => tasks = <<>>
    /\ fetchResult = "ok" =>
         /\ Len(tasks) <= Len(submissions)
         /\ \A i \in DOMAIN tasks : tasks[i].sub = submissions[i]
         /\ mainPc \in {"join", "tick"} => Len(tasks) = Len(submissions)

\* the execution spawned second has returned before the one spawned first
\* has made its first call
C7Witness ==
    /\ mainPc = "join"
    /\ Len(submissions) = 2
    /\ Len(tasks) = 2
    /\ tasks[1].pc = "create"
    /\ tasks[2].pc = "done"

\* ----------------------------------------------------------------- C8
\* C8 (as claimed): for a submission without attachments no create_container
\* call is made, and its execution ends having reported score 0.
C8NoAttachmentNoSandbox ==
    \A i \in DOMAIN tasks :
        tasks[i].sub.attachments = 0 =>
            /\ CountOp(Calls(i), "create_container") = 0
            /\ tasks[i].pc = "done" =>
                 \E k \in DOMAIN Calls(i) :
                     Calls(i)[k].op = "update_score" /\ Calls(i)[k].arg[2] = 0

\* ----------------------------------------------------------------- C9
\* C9 (as claimed): an execution whose wait saw the sandbox exit before the
\* deadline has made no stop call, no remove call and no score report.
C9ExitNoReport ==
    \A i \in DOMAIN tasks :
        (\E k \in DOMAIN Calls(i) : IsResult(Calls(i)[k], "wait_container", "exited")) =>
            /\ CountOp(Calls(i), "stop_container") = 0
            /\ CountOp(Calls(i), "remove_container") = 0
            /\ CountOp(Calls(i), "update_score") = 0

\* ---------------------------------------------------------------- C10
\* C10 (as claimed): an execution whose wait returned an error, or whose
\* wait stream ended, has made no score report and no stop or remove call.
C10WaitErrorNoReport ==
    \A i \in DOMAIN tasks :
        (\E k \in DOMAIN Calls(i) :
            \/ IsResult(Calls(i)[k], "wait_container", "err")
            \/ IsResult(Calls(i)[k], "wait_container", "ended")) =>
            /\ CountOp(Calls(i), "update_score") = 0
            /\ CountOp(Calls(i), "stop_container") = 0
            /\ CountOp(Calls(i), "remove_container") = 0


\* ======================================================================
\* The pipeline engine, src/src/worker.rs and src/src/builtin.rs.
\*
\* A Rust String is a sequence of tokens: a token is the marker "var::", a
\* quote character, a backslash, or a run of other characters.
\* ======================================================================

\* ---------------------------------------------------------------- bounds
\* Tasks added to one Worker
MaxTasks == 2

\* ----------------------------------------------------------------- data
None == <<>>
Some(x) == <<x>>

Marker == "var::"
Quote == "\""
Backslash == "\\"

\* toml::Value, the three scalar kinds
IntegerValue(n) == [type |-> "Integer", v |-> n]
StringValue(str) == [type |-> "String", v |-> str]
BooleanValue(b) == [type |-> "Boolean", v |-> b]

\* Command::Builtin / Command::Custom / Command::Variable
Builtin(action, args, abort_on_failure) ==
    [type |-> "builtin", action |-> action, args |-> args,
     abort_on_failure |-> abort_on_failure]
Custom(action, args, abort_on_failure) ==
    [type |-> "custom", action |-> action, args |-> args,
     abort_on_failure |-> abort_on_failure]
Variable(operation, name, value) ==
    [type |-> "variable", operation |-> operation, name |-> name, value |-> value]

\* the names create_builtin_registry registers
RegisteredBuiltins == {"download_and_extract_7z", "diff_file", "compile_cmake"}

\* ------------------------------------------------------- value to string
\* the escapes of a TOML basic string
RECURSIVE Escape(_)
Escape(str) ==
    IF str = <<>> THEN <<>>
    ELSE (IF Head(str) \in {Quote, Backslash} THEN <<Backslash, Head(str)>> ELSE <<Head(str)>>)
         \o Escape(Tail(str))

\* Value::to_string(): an integer in decimal, a boolean as true/false, a
\* string as a quoted TOML basic string
ValueToString(val) ==
    CASE val.type = "Integer" -> <<ToString(val.v)>>
      [] val.type = "Boolean" -> <<IF val.v THEN "true" ELSE "false">>
      [] val.type = "String" -> <<Quote>> \o Escape(val.v) \o <<Quote>>

RECURSIVE TrimStart(_, _)
TrimStart(str, ch) ==
    IF str # <<>> /\ Head(str) = ch THEN TrimStart(Tail(str), ch) ELSE str

RECURSIVE TrimEnd(_, _)
TrimEnd(str, ch) ==
    IF str # <<>> /\ str[Len(str)] = ch THEN TrimEnd(SubSeq(str, 1, Len(str) - 1), ch) ELSE str

\* mutant: the quotes of the TOML rendering are left in place
TrimMatchesNot(str, ch) == str

\* str.trim_matches(ch)
TrimMatches(str, ch) == TrimEnd(TrimStart(str, ch), ch)

\* arg.starts_with("var::")
StartsWithMarker(arg) == arg # <<>> /\ Head(arg) = Marker

\* arg.replace("var::", ""): every occurrence of the marker is removed
ReplaceMarker(arg) == SelectSeq(arg, LAMBDA t : t # Marker)

\* .get(name).expect(..).as_ref().unwrap() panics: the name is not a key
\* of the map, or its value is None
LookupPanics(arg, store) ==
    IF ReplaceMarker(arg) \in DOMAIN store THEN store[ReplaceMarker(arg)] = None ELSE TRUE

\* some marked argument of the command makes the substitution panic
SubstitutionPanics(args, store) ==
    \E k \in DOMAIN args : StartsWithMarker(args[k]) /\ LookupPanics(args[k], store)

\* args.iter_mut().filter(starts_with).for_each(|arg| *arg = ...)
SubstituteArgs(args, store) ==
    [k \in DOMAIN args |->
        IF StartsWithMarker(args[k])
        THEN TrimMatches(ValueToString(store[ReplaceMarker(args[k])][1]), Quote)
        ELSE args[k]]

\* args.clone().unwrap_or_default()
UnwrapOrDefault(opt, default) == IF opt = None THEN default ELSE opt[1]

\* --------------------------------------------------------------- inputs
\* HashMap<String, Option<Value>> handed to Worker::new
InitialVariables ==
    (<<"count">> :> Some(IntegerValue(5)))
    @@ (<<"name">> :> Some(StringValue(<<"alice">>)))
    @@ (<<"ok">> :> Some(BooleanValue(TRUE)))
    @@ (<<"flag">> :> None)

CmdAddCount == Variable("+", <<"count">>, 3)
CmdSubCount == Variable("-", <<"count">>, 1)
CmdAddName == Variable("+", <<"name">>, 1)
CmdAddFlag == Variable("+", <<"flag">>, 1)
CmdAddGhost == Variable("+", <<"ghost">>, 1)
CmdDiff ==
    Builtin("diff_file", Some(<< <<"base.txt">>, <<"out.txt">>, <<Marker, "count">> >>), Some(TRUE))
CmdCompile == Builtin("compile_cmake", Some(<< <<Marker, "name">> >>), None)
CmdUnknown == Builtin("no_such_builtin", None, Some(FALSE))
CmdUnknownAbort == Builtin("no_such_builtin", Some(<< <<Marker, "ok">> >>), Some(TRUE))
CmdTests == Custom("run_tests", Some(<< <<Marker, "count">>, <<"--fast">>, <<Marker, "ok">> >>), Some(FALSE))
CmdGrade == Custom("grade", None, Some(TRUE))
CmdReport == Custom("report", Some(<< <<"x", Marker>> >>), None)
CmdDiffGhost == Builtin("diff_file", Some(<< <<Marker, "ghost">> >>), Some(FALSE))
CmdEchoFlag == Custom("echo", Some(<< <<"-n">>, <<Marker, "flag">> >>), Some(TRUE))

\* the command lists of the Steps a pipeline is made of
StepUniverse ==
    { <<>>,
      <<CmdAddCount, CmdDiff, CmdTests>>,
      <<CmdUnknown, CmdAddCount>>,
      <<CmdGrade, CmdCompile>>,
      <<CmdAddName, CmdAddFlag, CmdAddGhost, CmdSubCount, CmdAddCount>>,
      <<CmdReport, CmdCompile, CmdTests>>,
      <<CmdDiffGhost, CmdAddCount>>,
      <<CmdAddCount, CmdEchoFlag, CmdGrade>>,
      <<CmdAddCount, CmdUnknownAbort, CmdTests>> }

\* the names Steps are given
StepNames == {"build", "test", "grade"}


\* ------------------------------------------------------------- messages
Label(name) == <<"[", name, "]">>

\* Ok(format!("{:<w$} {:>w2$}\n", label, "Passed"))
PassedMsg(name) == Label(name) \o <<"Passed", "\n">>
\* format!("{:<w$} {:>w2$}\n{}", label, "Failed", e)
FailedMsg(name, e) == Label(name) \o <<"Failed", "\n">> \o e
\* format!("{:<w$} {:>w2$}\n{}\nTest aborted.\n", label, "Failed", e)
AbortedMsg(name, e) == Label(name) \o <<"Failed", "\n">> \o e \o <<"\n", "Test aborted.", "\n">>
\* format!("{} execution failed due to: {}\n", label, e)
SpawnFailedMsg(name, e) == Label(name) \o <<" execution failed due to: ">> \o e \o <<"\n">>
\* format!("{} aborted due to failure: {}\n", label, e)
SpawnAbortedMsg(name, e) == Label(name) \o <<" aborted due to failure: ">> \o e \o <<"\n">>

\* Result<String, Box<dyn Error>> of Task::run
TaskOk(msg) == [ok |-> TRUE, msg |-> msg]
TaskErr(msg) == [ok |-> FALSE, msg |-> msg]

\* Result<(), Box<dyn Error>> of a command
CmdOk == [ok |-> TRUE, error |-> <<>>]
CmdErr(e) == [ok |-> FALSE, error |-> e]

\* mutant: every failure aborts
AbortsAlways(cmd) == TRUE

\* abort_on_failure.unwrap_or(false)
Aborts(cmd) == UnwrapOrDefault(cmd.abort_on_failure, FALSE)

\* mutant: a failure that does not abort is reported as Passed
FailureReturnPassed(name, cmd, e) ==
    IF Aborts(cmd) THEN TaskErr(AbortedMsg(name, e)) ELSE TaskOk(PassedMsg(name))

\* what Task::run returns when a Builtin failed, or a Custom exited non-zero
FailureReturn(name, cmd, e) ==
    IF Aborts(cmd) THEN TaskErr(AbortedMsg(name, e)) ELSE TaskOk(FailedMsg(name, e))

\* mutant: a spawn failure always aborts
SpawnFailureReturnAbort(name, cmd, e) == TaskErr(SpawnAbortedMsg(name, e))

\* what Task::run returns when a Custom could not be spawned
SpawnFailureReturn(name, cmd, e) ==
    IF Aborts(cmd) THEN TaskErr(SpawnAbortedMsg(name, e)) ELSE TaskOk(SpawnFailedMsg(name, e))

\* ------------------------------------------------------ BuiltinRegistry
\* what a registered action can return
ActionResults == {CmdOk, CmdErr(<<"action error">>)}

NotFound(name) == CmdErr(<<"Builtin command '", name, "' not found.">>)

\* mutant: an unregistered name is passed over as a success
ExecuteLenient(name, args, actionResult) ==
    IF name \in RegisteredBuiltins
    THEN [invoked |-> <<[name |-> name, args |-> args]>>, result |-> actionResult]
    ELSE [invoked |-> <<>>, result |-> CmdOk]

\* BuiltinRegistry::execute(name, args), the registered action returning
\* actionResult if it is called: the calls made and the Result returned
Execute(name, args, actionResult) ==
    IF name \in RegisteredBuiltins
    THEN [invoked |-> <<[name |-> name, args |-> args]>>, result |-> actionResult]
    ELSE [invoked |-> <<>>, result |-> NotFound(name)]

\* --------------------------------------------------------------- Worker
\* mutant: a new entry is put in front
IndexMapInsertFront(map, key, value) == <<[key |-> key, value |-> value]>> \o map

\* IndexMap::insert: a new key is appended, an existing key keeps its
\* index and gets the new value
IndexMapInsert(map, key, value) ==
    IF \E k \in DOMAIN map : map[k].key = key
    THEN [k \in DOMAIN map |-> IF map[k].key = key THEN [key |-> key, value |-> value] ELSE map[k]]
    ELSE Append(map, [key |-> key, value |-> value])

CurTask == wTasks[taskIdx]
CurCmd == CurTask.commands[cmdIdx]

AtCommand(type) ==
    /\ wPc = "run"
    /\ cmdIdx <= Len(CurTask.commands)
    /\ CurCmd.type = type

\* The entry of `log` for the command being executed: the arguments it
\* was given, the registry calls made for it, what the action or process
\* produced, the Result the command had for Task::run, and how it ended:
\* "ok", "failed", "spawn_failed", or "panicked".
LogEntry(args, invoked, actionResult, result, outcome) ==
    [task |-> taskIdx, cmd |-> cmdIdx, command |-> CurCmd, args |-> args,
     invoked |-> invoked, actionResult |-> actionResult, result |-> result,
     outcome |-> outcome]

\* mutant: a failure without abort_on_failure skips the command and goes on
EndsTaskOnlyIfAbort(cmd, result) == ~result.ok /\ Aborts(cmd)

\* `if let Err(e)` / `!output.status.success()` / `Err(e)`: both branches
\* under a failure return from Task::run
EndsTask(cmd, result) == ~result.ok

\* mutant: Worker::run goes on to the next Task after an Err
BreaksNever(ret) == FALSE

\* the Err arm of Worker::run ends in `break`
Breaks(ret) == ~ret.ok

\* Worker::run's match on task.run(): the message is inserted under the
\* Task's name; Err breaks the loop, Ok goes to the next Task, if any
TaskReturns(ret) ==
    /\ results' = IndexMapInsert(results, CurTask.name, ret.msg)
    /\ IF ~Breaks(ret) /\ taskIdx < Len(wTasks)
       THEN taskIdx' = taskIdx + 1 /\ cmdIdx' = 1 /\ wPc' = "run"
       ELSE UNCHANGED <<taskIdx, cmdIdx>> /\ wPc' = "done"

\* mutant: the command loop does not advance
NextCommandAgain == UNCHANGED <<cmdIdx, wPc, taskIdx, results>>

\* the command succeeded: on to the next command of the Task
NextCommand ==
    /\ cmdIdx' = cmdIdx + 1
    /\ UNCHANGED <<wPc, taskIdx, results>>

\* mutant: the panic is swallowed and the command skipped
UnwindSkipsCommand == NextCommand

\* expect()/unwrap() panics: nothing catches it, Task::run and Worker::run
\* are unwound where they stand
Unwind ==
    /\ wPc' = "panicked"
    /\ UNCHANGED <<taskIdx, cmdIdx, results>>

\* Worker::new(vars)
WInit ==
    /\ wPc = "build"
    /\ wTasks = <<>>
    /\ variables = InitialVariables
    /\ results = <<>>
    /\ taskIdx = 0
    /\ cmdIdx = 0
    /\ log = <<>>

\* Worker::add_task(Task::new(name, commands, variables))
AddTask ==
    /\ wPc = "build"
    /\ Len(wTasks) < MaxTasks
    /\ \E name \in StepNames, commands \in StepUniverse :
         \* the names are the keys of Pipeline.steps, an IndexMap
         /\ \A k \in DOMAIN wTasks : wTasks[k].name # name
         /\ wTasks' = Append(wTasks, [name |-> name, commands |-> commands])
    /\ UNCHANGED <<wPc, variables, results, taskIdx, cmdIdx, log>>

\* Worker::run begins: the registry is created, the loop takes the first Task
Run ==
    /\ wPc = "build"
    /\ IF wTasks = <<>>
       THEN wPc' = "done" /\ UNCHANGED <<taskIdx, cmdIdx>>
       ELSE wPc' = "run" /\ taskIdx' = 1 /\ cmdIdx' = 1
    /\ UNCHANGED <<wTasks, variables, results, log>>

\* mutant: the substitution is done in place, on the Task's own args
CommandsSubstitutedInPlace(commands, idx, args) ==
    IF commands[idx].args = None THEN commands
    ELSE [commands EXCEPT ![idx].args = Some(args)]

\* `let mut args = args.clone().unwrap_or_default()`: the substitution
\* works on a clone, self.commands is only borrowed by the loop
CommandsAfterSubstitution(commands, idx, args) == commands

\* a Builtin or Custom whose substitution panics: the panic unwinds out of
\* Task::run and Worker::run before the command is dispatched
SubstitutionPanic ==
    /\ wPc = "run"
    /\ cmdIdx <= Len(CurTask.commands)
    /\ CurCmd.type \in {"builtin", "custom"}
    /\ SubstitutionPanics(UnwrapOrDefault(CurCmd.args, <<>>), variables)
    /\ Unwind
    /\ UNCHANGED <<wTasks, variables, log>>

\* Command::Builtin
ExecBuiltin ==
    /\ AtCommand("builtin")
    /\ ~SubstitutionPanics(UnwrapOrDefault(CurCmd.args, <<>>), variables)
    /\ \E actionResult \in ActionResults :
         LET args == SubstituteArgs(UnwrapOrDefault(CurCmd.args, <<>>), variables)
             ex == Execute(CurCmd.action, args, actionResult)
         IN  /\ log' = Append(log, LogEntry(args, ex.invoked, actionResult, ex.result,
                                            IF ex.result.ok THEN "ok" ELSE "failed"))
             /\ IF EndsTask(CurCmd, ex.result)
                THEN TaskReturns(FailureReturn(CurTask.name, CurCmd, ex.result.error))
                ELSE NextCommand
             /\ wTasks' = [wTasks EXCEPT ![taskIdx].commands = CommandsAfterSubstitution(@, cmdIdx, args)]
    /\ UNCHANGED variables

\* Command::output() of a Custom: it ran and exited, it could not be
\* spawned, or it ran and wrote bytes to stdout that are not UTF-8
CustomOutcomes == {"exit_zero", "exit_nonzero", "spawn_error", "stdout_not_utf8"}

\* Command::Custom
ExecCustom ==
    /\ AtCommand("custom")
    /\ ~SubstitutionPanics(UnwrapOrDefault(CurCmd.args, <<>>), variables)
    /\ \E outcome \in CustomOutcomes :
         LET args == SubstituteArgs(UnwrapOrDefault(CurCmd.args, <<>>), variables)
             result == IF outcome = "exit_zero" THEN CmdOk
                       ELSE IF outcome = "exit_nonzero" THEN CmdErr(<<"stdout">>)
                       ELSE IF outcome = "spawn_error" THEN CmdErr(<<"spawn error">>)
                       ELSE CmdErr(<<"Utf8Error">>)
             how == IF outcome = "exit_zero" THEN "ok"
                    ELSE IF outcome = "exit_nonzero" THEN "failed"
                    ELSE IF outcome = "spawn_error" THEN "spawn_failed"
                    ELSE "panicked"
         IN  /\ log' = Append(log, LogEntry(args, <<>>, result, result, how))
             /\ IF outcome = "stdout_not_utf8"
                THEN Unwind
                ELSE IF ~EndsTask(CurCmd, result)
                THEN NextCommand
                ELSE IF outcome = "spawn_error"
                THEN TaskReturns(SpawnFailureReturn(CurTask.name, CurCmd, result.error))
                ELSE TaskReturns(FailureReturn(CurTask.name, CurCmd, result.error))
             /\ wTasks' = [wTasks EXCEPT ![taskIdx].commands = CommandsAfterSubstitution(@, cmdIdx, args)]
    /\ UNCHANGED variables

\* mutant: the delta replaces the value instead of being added
ApplyVariableAssign(store, cmd) ==
    IF /\ cmd.operation = "+"
       /\ cmd.name \in DOMAIN store
       /\ store[cmd.name] # None
       /\ store[cmd.name][1].type = "Integer"
    THEN [store EXCEPT ![cmd.name] = Some(IntegerValue(cmd.value))]
    ELSE store

\* the store after Command::Variable { operation, name, value }
ApplyVariable(store, cmd) ==
    IF /\ cmd.operation = "+"
       /\ cmd.name \in DOMAIN store
       /\ store[cmd.name] # None
       /\ store[cmd.name][1].type = "Integer"
    THEN [store EXCEPT ![cmd.name] = Some(IntegerValue(store[cmd.name][1].v + cmd.value))]
    ELSE store

\* Command::Variable
ExecVariable ==
    /\ AtCommand("variable")
    /\ variables' = ApplyVariable(variables, CurCmd)
    /\ log' = Append(log, LogEntry(<<>>, <<>>, CmdOk, CmdOk, "ok"))
    /\ NextCommand
    /\ UNCHANGED wTasks

\* the command loop of Task::run is over: Ok("... Passed")
FinishTask ==
    /\ wPc = "run"
    /\ cmdIdx > Len(CurTask.commands)
    /\ TaskReturns(TaskOk(PassedMsg(CurTask.name)))
    /\ UNCHANGED <<wTasks, variables, log>>

WNext ==
    \/ AddTask /\ UNCHANGED notWorker
    \/ Run /\ UNCHANGED notWorker
    \/ SubstitutionPanic /\ UNCHANGED notWorker
    \/ ExecBuiltin /\ UNCHANGED notWorker
    \/ ExecCustom /\ UNCHANGED notWorker
    \/ ExecVariable /\ UNCHANGED notWorker
    \/ FinishTask /\ UNCHANGED notWorker

\* a fresh Worker beside a daemon that has not started
WorkerInit == WInit /\ Init /\ CanvasParked /\ LockParked

\* one pipeline run; the daemon does not move
SpecWorker == WorkerInit /\ [][WNext]_allvars

WTypeOK ==
    /\ wPc \in {"build", "run", "done", "panicked"}
    /\ Len(wTasks) <= MaxTasks
    /\ taskIdx \in 0..Len(wTasks)
    /\ Len(results) <= Len(wTasks)
    /\ \A i, j \in DOMAIN wTasks : wTasks[i].name = wTasks[j].name => i = j

\* ------------------------------------------------- reading a pipeline run
\* the message contains the token
HasToken(msg, tok) == \E k \in DOMAIN msg : msg[k] = tok

\* the command ended in a failure Task::run saw: a Builtin that returned
\* Err, a Custom that exited non-zero, a Custom that could not be spawned
FailedEntry(e) == e.outcome \in {"failed", "spawn_failed"}

\* this step dispatched a command
Executed == Len(log') = Len(log) + 1
NewEntry == log'[Len(log')]

\* what Worker::run does after a Task returned Ok
Continues ==
    IF taskIdx < Len(wTasks)
    THEN wPc' = "run" /\ taskIdx' = taskIdx + 1
    ELSE wPc' = "done" /\ taskIdx' = taskIdx

\* C11: a failing command is the last command of its Task that is
\* executed, whatever its abort_on_failure says and whether it is a Builtin
\* that returned Err, a Custom that exited non-zero or a Custom that could
\* not be spawned; the Task is over once it has failed.
C11FirstFailureEndsTask ==
    \A k \in DOMAIN log :
        FailedEntry(log[k]) =>
            /\ \A m \in DOMAIN log : log[m].task = log[k].task => m <= k
            /\ ~(wPc = "run" /\ taskIdx = log[k].task)

\* a command without abort_on_failure failed, commands were declared after
\* it, and the run is over without them
C11Witness ==
    /\ wPc = "done"
    /\ \E k \in DOMAIN log :
        /\ FailedEntry(log[k])
        /\ ~Aborts(log[k].command)
        /\ log[k].cmd < Len(wTasks[log[k].task].commands)

\* C12: when a command with abort_on_failure = true fails, the run stops
\* with that Task: the aborting message is recorded under the Task's name,
\* and a stopped run executes nothing more.
C12AbortHaltsPipeline ==
    [][/\ (Executed /\ FailedEntry(NewEntry) /\ Aborts(NewEntry.command)) =>
            /\ wPc' = "done"
            /\ taskIdx' = taskIdx
            /\ results' # <<>>
            /\ results'[Len(results')].key = CurTask.name
            /\ \/ HasToken(results'[Len(results')].value, "Test aborted.")
               \/ HasToken(results'[Len(results')].value, " aborted due to failure: ")
       /\ wPc = "done" => UNCHANGED <<log, results, taskIdx, variables>>
      ]_<<vars, wvars>>

\* the run stopped at an aborting failure with a Task still to come
C12Witness ==
    /\ wPc = "done"
    /\ taskIdx < Len(wTasks)
    /\ log # <<>>
    /\ FailedEntry(log[Len(log)])
    /\ Aborts(log[Len(log)].command)
    /\ log[Len(log)].task = taskIdx

C14DeclarationOrderOnePass ==
    /\ \A k \in DOMAIN log :
        /\ log[k].task \in DOMAIN wTasks
        /\ log[k].cmd \in DOMAIN wTasks[log[k].task].commands
        /\ log[k].command = wTasks[log[k].task].commands[log[k].cmd]
        /\ log[k].task <= taskIdx
    /\ \A k \in DOMAIN log :
        LET prev == IF k = 1 THEN 0 ELSE log[k - 1].task
        IN  IF log[k].task = prev
            THEN log[k].cmd = log[k - 1].cmd + 1
            ELSE /\ log[k].task > prev
                 /\ log[k].cmd = 1
                 /\ \A t \in (prev + 1)..(log[k].task - 1) : wTasks[t].commands = <<>>
    /\ \A k, m \in DOMAIN log :
        (log[k].task = log[m].task /\ log[k].cmd = log[m].cmd) => k = m

\* a finished run that executed several commands of each of two Tasks
C14Witness ==
    /\ wPc = "done"
    /\ \E k, m \in DOMAIN log : log[k].task = 1 /\ log[k].cmd = 2 /\ log[m].task = 2 /\ log[m].cmd = 3

\* the argument names a variable: it begins with the marker
RefersTo(arg) == IF arg # <<>> THEN Head(arg) = Marker ELSE FALSE

\* the command has an argument naming a variable that is undeclared, or
\* declared without a value
RefersToMissing(cmd, store) ==
    IF cmd.type = "variable" THEN FALSE
    ELSE \E k \in DOMAIN UnwrapOrDefault(cmd.args, <<>>) :
            LET arg == UnwrapOrDefault(cmd.args, <<>>)[k]
            IN  IF ~RefersTo(arg) THEN FALSE
                ELSE IF Tail(arg) \in DOMAIN store THEN store[Tail(arg)] = None
                ELSE TRUE

\* C15: when the command about to run names an undeclared or unset variable
\* in a var:: argument, the run ends there: the command is not dispatched,
\* nothing is recorded for its Task, and nothing at all happens afterwards.
C15MissingVariableIsFatal ==
    [][/\ (wPc = "run" /\ taskIdx \in DOMAIN wTasks /\ cmdIdx \in DOMAIN CurTask.commands) =>
            (RefersToMissing(CurCmd, variables) =>
                /\ wPc' = "panicked"
                /\ UNCHANGED <<log, results, variables, taskIdx, cmdIdx>>)
       /\ wPc = "panicked" => UNCHANGED <<log, results, variables, taskIdx, cmdIdx>>
      ]_<<vars, wvars>>

\* the run died at a command naming the unset variable, with a command and
\* a Task still to come, after the command before it was executed
C15Witness ==
    /\ wPc = "panicked"
    /\ CurCmd = CmdEchoFlag
    /\ cmdIdx < Len(CurTask.commands)
    /\ taskIdx < Len(wTasks)
    /\ \E k \in DOMAIN log : log[k].task = taskIdx /\ log[k].cmd = cmdIdx - 1
    /\ \A k \in DOMAIN log : log[k].task = taskIdx => log[k].cmd < cmdIdx
    /\ \A i \in DOMAIN results : results[i].key # CurTask.name

\* the string an argument naming a variable stands for: an integer in
\* decimal, a boolean as true or false, a string of plain characters as it is
Stringified(val) ==
    CASE val.type = "Integer" -> <<ToString(val.v)>>
      [] val.type = "Boolean" -> <<IF val.v THEN "true" ELSE "false">>
      [] val.type = "String" -> val.v

\* C16: a dispatched Builtin or Custom command gets as many arguments as it
\* declares; an argument beginning with var:: is the stringified value the
\* named variable has in the store when the command is dispatched (count = 5
\* gives "5"), and every other argument is the declared one.
C16SubstitutionUsesCurrentStore ==
    [][(Executed /\ NewEntry.command.type # "variable") =>
            LET declared == UnwrapOrDefault(CurCmd.args, <<>>)
                given == NewEntry.args
            IN  /\ NewEntry.command = CurCmd
                /\ DOMAIN given = DOMAIN declared
                /\ \A k \in DOMAIN declared :
                    IF RefersTo(declared[k])
                    THEN /\ given[k] = Stringified(variables[Tail(declared[k])][1])
                         /\ variables[Tail(declared[k])] = Some(IntegerValue(5))
                                => given[k] = <<"5">>
                    ELSE given[k] = declared[k]
      ]_<<vars, wvars>>

\* a command of the second Task was given the count that a VariableOp of
\* the first Task had raised from 5 to 8
C16Witness ==
    \E k \in DOMAIN log :
        /\ log[k].task = 2
        /\ log[k].command = CmdTests
        /\ log[k].args = << <<"8">>, <<"--fast">>, <<"true">> >>
        /\ \E m \in DOMAIN log : log[m].task = 1 /\ log[m].command = CmdAddCount

\* C17: a VariableOp "+" on a variable holding an integer puts value + delta
\* in its place and changes no other entry; on an absent, unset or
\* non-integer variable it leaves the store as it is; either way the command
\* succeeds and the Task goes on with its next command.
C17VariableOpAddsInPlace ==
    [][(Executed /\ NewEntry.command.type = "variable" /\ NewEntry.command.operation = "+") =>
            LET c == NewEntry.command
                holdsInteger ==
                    IF c.name \notin DOMAIN variables THEN FALSE
                    ELSE IF variables[c.name] = None THEN FALSE
                    ELSE variables[c.name][1].type = "Integer"
            IN  /\ IF holdsInteger
                   THEN /\ DOMAIN variables' = DOMAIN variables
                        /\ variables'[c.name] =
                              <<[type |-> "Integer", v |-> variables[c.name][1].v + c.value]>>
                        /\ \A n \in DOMAIN variables :
                              n # c.name => variables'[n] = variables[n]
                   ELSE variables' = variables
                /\ NewEntry.outcome = "ok"
                /\ wPc' = "run"
                /\ taskIdx' = taskIdx
                /\ cmdIdx' = cmdIdx + 1
                /\ results' = results
      ]_<<vars, wvars>>

\* "+" was applied to a string, an unset and an undeclared variable, which
\* left the store alone, and then added 3 to the count of 5
C17Witness ==
    /\ variables = [InitialVariables EXCEPT ![<<"count">>] = Some(IntegerValue(8))]
    /\ \E k \in DOMAIN log : log[k].command = CmdAddName
    /\ \E k \in DOMAIN log : log[k].command = CmdAddFlag
    /\ \E k \in DOMAIN log : log[k].command = CmdAddGhost
    /\ log # <<>>
    /\ log[Len(log)].command = CmdAddCount

\* the Tasks whose Task::run has returned to Worker::run
Completed ==
    CASE wPc = "done" -> taskIdx
      [] wPc \in {"run", "panicked"} -> taskIdx - 1
      [] OTHER -> 0

\* results has one entry per returned Task, in the order of the Tasks, each
\* under its Task's name and beginning with its label
ResultsMatch ==
    /\ Len(results) = Completed
    /\ \A i \in DOMAIN results :
        /\ results[i].key = wTasks[i].name
        /\ Len(results[i].value) >= 3
        /\ SubSeq(results[i].value, 1, 3) = <<"[", wTasks[i].name, "]">>

TaskOf(key) == CHOOSE t \in DOMAIN wTasks : wTasks[t].name = key

\* the log entries of the commands Task t executed
EntriesOf(t) == {k \in DOMAIN log : log[k].task = t}

\* C19: the message of a returned Task is the "Passed" one exactly when
\* every command the Task declares was executed and none of them failed;
\* this includes a Task without commands.
C19PassedIffNoFailure ==
    \A i \in DOMAIN results :
        LET t == TaskOf(results[i].key)
            passed == HasToken(results[i].value, "Passed")
        IN  /\ passed <=>
                /\ Cardinality(EntriesOf(t)) = Len(wTasks[t].commands)
                /\ \A k \in EntriesOf(t) : log[k].outcome = "ok"
            /\ passed => ~HasToken(results[i].value, "Failed")
            /\ passed => (t < taskIdx \/ wPc = "done")

\* a Task without commands and a Task of VariableOps only have both passed
C19Witness ==
    /\ Len(results) = 2
    /\ \E i, j \in DOMAIN results :
        /\ wTasks[i].commands = <<>>
        /\ wTasks[j].commands # <<>>
        /\ \A k \in DOMAIN wTasks[j].commands : wTasks[j].commands[k].type = "variable"
        /\ HasToken(results[i].value, "Passed")
        /\ HasToken(results[j].value, "Passed")

\* C20: for a Builtin command whose name is registered the registry invoked
\* that action once, with the arguments it was given, and the command's
\* result is the action's; for a name that is not registered it invoked
\* nothing and the result is the error "Builtin command '<name>' not found.".
C20ExecuteForwardsOrNotFound ==
    \A k \in DOMAIN log :
        log[k].command.type = "builtin" =>
            IF log[k].command.action \in {"download_and_extract_7z", "diff_file", "compile_cmake"}
            THEN /\ log[k].invoked = <<[name |-> log[k].command.action, args |-> log[k].args]>>
                 /\ log[k].result = log[k].actionResult
            ELSE /\ log[k].invoked = <<>>
                 /\ ~log[k].result.ok
                 /\ HasToken(log[k].result.error, log[k].command.action)
                 /\ HasToken(log[k].result.error, "' not found.")

\* one run met an unregistered name and a registered action that failed
C20Witness ==
    /\ \E k \in DOMAIN log :
        /\ log[k].command = CmdUnknown
        /\ log[k].invoked = <<>>
    /\ \E k \in DOMAIN log :
        /\ log[k].command = CmdDiff
        /\ log[k].invoked # <<>>
        /\ ~log[k].result.ok

\* C21: a Builtin command whose name is not registered fails like any other
\* command: its Task ends there with a "Failed" message carrying the
\* not-found error, and the run stops if the command's abort_on_failure is
\* true and goes on to the next Task otherwise.
C21UnknownBuiltinFailsTask ==
    [][(/\ Executed
        /\ NewEntry.command.type = "builtin"
        /\ NewEntry.command.action \notin {"download_and_extract_7z", "diff_file", "compile_cmake"}) =>
            /\ NewEntry.outcome = "failed"
            /\ results' # <<>>
            /\ results'[Len(results')].key = CurTask.name
            /\ HasToken(results'[Len(results')].value, "Failed")
            /\ HasToken(results'[Len(results')].value, "' not found.")
            /\ IF NewEntry.command.abort_on_failure = <<TRUE>>
               THEN /\ wPc' = "done"
                    /\ taskIdx' = taskIdx
                    /\ HasToken(results'[Len(results')].value, "Test aborted.")
               ELSE /\ Continues
                    /\ ~HasToken(results'[Len(results')].value, "Test aborted.")
      ]_<<vars, wvars>>

\* an unregistered name without abort_on_failure ended the first Task, the
\* second Task ran and an unregistered name with abort_on_failure ended it
C21Witness ==
    /\ wPc = "done"
    /\ \E k \in DOMAIN log : log[k].task = 1 /\ log[k].command = CmdUnknown
    /\ \E k \in DOMAIN log : log[k].task = 2 /\ log[k].command = CmdUnknownAbort
    /\ Len(results) = 2
    /\ ~HasToken(results[1].value, "Test aborted.")
    /\ HasToken(results[2].value, "Test aborted.")

\* ===========================================================================
\* One listing of the submissions: Config, Canvas::get_all_sub and
\* Canvas::get_next_link (src/src/config.rs, src/src/canvas.rs).  The server
\* is the environment: it chooses each page's body and Link header.
\* ===========================================================================

\* submissions the server sends in one listing, over all its pages
MaxFetched == 3

\* default_fetch_filter()
DefaultFetchFilter == {"submitted"}

\* what config.json can say: no fetch_filter key, or a list of states
ConfiguredFilters == {None} \cup {Some(f) : f \in SUBSET WorkflowStates}

\* format!("Bearer {}", config.api_key)
Header == "Bearer api_key"

\* self.url: the first page of the listing, without a query
BaseUrl == [page |-> 1, query |-> <<>>]

\* one <url>; rel="..." entry of a Link header
Link(rel, page, hasQuery) ==
    [rel |-> rel,
     url |-> [page |-> page, query |-> IF hasQuery THEN <<"?page=", ToString(page)>> ELSE <<>>]]

\* The Link headers page p of the listing can come with: none, one that is
\* not a string of visible ASCII, or a list of entries.  A next entry points
\* to page p + 1.
LinkHeaders(p) ==
    { [kind |-> "absent", links |-> <<>>],
      [kind |-> "opaque", links |-> <<>>],
      [kind |-> "links", links |-> <<Link("prev", p - 1, TRUE)>>],
      [kind |-> "links", links |-> <<Link("first", 1, FALSE), Link("last", MaxPages, FALSE)>>],
      [kind |-> "links", links |-> <<Link("next", p + 1, TRUE)>>],
      [kind |-> "links", links |-> <<Link("next", p + 1, FALSE)>>],
      [kind |-> "links", links |-> <<Link("prev", p - 1, TRUE), Link("next", p + 1, TRUE)>>] }

\* next_url.push_str("&access_token=..") if the URL contains '?', else
\* push_str("?access_token=..")
PushAccessToken(url, access_token) ==
    [url EXCEPT !.query = IF url.query # <<>>
                          THEN @ \o <<"&access_token=", access_token>>
                          ELSE <<"?access_token=", access_token>>]

\* the loop over link_str.split(','): the first entry with rel="next"
RECURSIVE FirstNext(_)
FirstNext(links) ==
    IF links = <<>> THEN None
    ELSE IF Head(links).rel = "next" THEN Some(Head(links).url)
    ELSE FirstNext(Tail(links))

\* Canvas::get_next_link(headers, access_token)
GetNextLink(headers, access_token) ==
    IF headers.kind # "links" THEN None
    ELSE IF FirstNext(headers.links) = None THEN None
    ELSE Some(PushAccessToken(FirstNext(headers.links)[1], access_token))

\* the header of the response says there is a page after this one
HasNextLink(headers) ==
    \E k \in DOMAIN headers.links : headers.links[k].rel = "next"

\* no submission occurs twice in the list
NoDuplicates(list) ==
    \A i, j \in DOMAIN list : list[i].user_id = list[j].user_id => i = j

\* serde reads config.json (fetch_filter defaults when the key is absent),
\* Canvas::new, and get_all_sub starts with next_url = Some(self.url)
LoadConfig ==
    /\ cPc = "load"
    /\ \E f \in ConfiguredFilters :
         fetch_filter' = IF f = None THEN DefaultFetchFilter ELSE f[1]
    /\ cNextUrl' = Some(BaseUrl)
    /\ cPc' = "send"
    /\ UNCHANGED <<cSubmissions, fetched, requests, response>>

\* self.client.get(&url).header(AUTHORIZATION_HEADER, &self.header).send().await?
Send ==
    /\ cPc = "send"
    /\ cNextUrl # <<>>
    /\ requests' = Append(requests, [url |-> cNextUrl[1], authorization |-> Header])
    /\ \E sent \in BOOLEAN :
         IF ~sent
         THEN cPc' = "err" /\ UNCHANGED response
         ELSE /\ cPc' = "receive"
              /\ \E h \in LinkHeaders(cNextUrl[1].page), body \in PageSet :
                    /\ HasNextLink(h) => cNextUrl[1].page < MaxPages
                    /\ Len(fetched) + Len(body) <= MaxFetched
                    \* one page holds a user's submission once
                    /\ NoDuplicates(body)
                    /\ response' = Some([headers |-> h, body |-> body])
    /\ UNCHANGED <<fetch_filter, cNextUrl, cSubmissions, fetched>>

\* The rest of the loop body: the next link is taken from the headers, the
\* body is parsed (`?` returns Err and drops the Vec; the model leaves it
\* where it is) and the page's submitted submissions are appended.
Receive ==
    /\ cPc = "receive"
    /\ cNextUrl' = GetNextLink(response[1].headers, Header)
    /\ \E parsed \in BOOLEAN :
         IF ~parsed
         THEN /\ cPc' = "err"
              /\ UNCHANGED <<cSubmissions, fetched>>
         ELSE /\ cSubmissions' = cSubmissions \o FilterSubmitted(response[1].body)
              /\ fetched' = fetched \o response[1].body
              /\ cPc' = IF cNextUrl' = None THEN "ok" ELSE "send"
    /\ response' = None
    /\ UNCHANGED <<fetch_filter, requests>>

\* a listing is about to be made
CInit ==
    /\ cPc = "load"
    /\ fetch_filter = {}
    /\ cNextUrl = <<>>
    /\ cSubmissions = <<>>
    /\ fetched = <<>>
    /\ requests = <<>>
    /\ response = <<>>

CNext ==
    \/ LoadConfig /\ UNCHANGED notCanvas
    \/ Send /\ UNCHANGED notCanvas
    \/ Receive /\ UNCHANGED notCanvas

\* one listing beside a daemon that has not started and no Worker
CanvasInit == CInit /\ Init /\ WorkerParked /\ LockParked

SpecCanvas == CanvasInit /\ [][CNext]_allvars

CTypeOK ==
    /\ cPc \in {"load", "send", "receive", "ok", "err"}
    /\ fetch_filter \subseteq WorkflowStates
    /\ Len(fetched) <= MaxFetched
    /\ Len(requests) <= MaxPages
    /\ cPc = "receive" <=> response # <<>>

\* the submissions of a list whose workflow state is among the accepted ones
Accepted(list, states) == SelectSeq(list, LAMBDA sub : sub.workflow_state \in states)

\* C22: the list a finished listing returns is made of exactly the fetched
\* submissions whose workflow state is in Config.fetch_filter.
C22ListFilteredByConfig ==
    cPc = "ok" => cSubmissions = Accepted(fetched, fetch_filter)

\* the list is the concatenation of the pages' submitted submissions
ConcatenatedInLinkOrder == cSubmissions = Accepted(fetched, {"submitted"})

\* every request has the Authorization header, and every request after the
\* first also has the credential in its query
CredentialOnEveryRequest ==
    \A k \in DOMAIN requests :
        /\ requests[k].authorization = "Bearer api_key"
        /\ requests[k].url.page = k
        /\ k > 1 => \E q \in DOMAIN requests[k].url.query :
                        /\ requests[k].url.query[q] \in {"?access_token=", "&access_token="}
                        /\ q < Len(requests[k].url.query)
                        /\ requests[k].url.query[q + 1] = "Bearer api_key"

\* pages are followed while a next link is given, and no further
FollowedToTheEnd ==
    /\ cPc = "send" /\ requests # <<>> => cNextUrl # <<>>
    /\ cPc = "ok" => cNextUrl = <<>>

\* what holds of every listing: link order, filter, credential, stopping
ListingFollowsLinks ==
    /\ cPc \in {"send", "ok"} => ConcatenatedInLinkOrder
    /\ CredentialOnEveryRequest
    /\ FollowedToTheEnd

\* C23: a listing spread over several linked pages returns one filtered
\* list without duplicates that is the concatenation of the pages in link
\* order, every request carried the credential, and following stopped at
\* the page without a next link.
C23PagesConcatenatedDeduplicated ==
    cPc = "ok" =>
        /\ ConcatenatedInLinkOrder
        /\ NoDuplicates(cSubmissions)
        /\ CredentialOnEveryRequest
        /\ FollowedToTheEnd

\* ===========================================================================
\* A pipeline run whose owner also calls Worker::modify_variable
\* (src/src/worker.rs).  modify_variable takes &mut self, as Worker::run
\* does, so it is called before the run or after it, never during it.
\* ===========================================================================

\* the names and values the owner calls modify_variable with
ModifyNames == {<<"count">>, <<"flag">>, <<"ghost">>}
ModifyValues == {IntegerValue(7)}

\* mutant: an undeclared name is inserted
EntryOrInsert(store, name, value) ==
    IF name \in DOMAIN store
    THEN [store EXCEPT ![name] = Some(value)]
    ELSE store @@ (name :> Some(value))

\* .entry(name).and_modify(|e| *e = Some(value)): an occupied entry is
\* overwritten, a vacant one is dropped without being inserted
EntryAndModify(store, name, value) ==
    IF name \in DOMAIN store
    THEN [store EXCEPT ![name] = Some(value)]
    ELSE store

\* Worker::modify_variable(name, value)
ModifyVariable ==
    /\ wPc \in {"build", "done"}
    /\ \E name \in ModifyNames, value \in ModifyValues :
         variables' = EntryAndModify(variables, name, value)
    /\ UNCHANGED <<wPc, wTasks, results, taskIdx, cmdIdx, log>>

SNext ==
    \/ AddTask /\ UNCHANGED notWorker
    \/ Run /\ UNCHANGED notWorker
    \/ SubstitutionPanic /\ UNCHANGED notWorker
    \/ ExecBuiltin /\ UNCHANGED notWorker
    \/ ExecCustom /\ UNCHANGED notWorker
    \/ ExecVariable /\ UNCHANGED notWorker
    \/ FinishTask /\ UNCHANGED notWorker
    \/ ModifyVariable /\ UNCHANGED notWorker

\* a Worker and its owner
StoreInit == WInit /\ Init /\ CanvasParked /\ LockParked

SpecStore == StoreInit /\ [][SNext]_allvars

\* C24: no step changes the set of names in the store; a VariableOp on an
\* undeclared name leaves the store as it is, modify_variable with an
\* undeclared name would leave it as it is, and a step of the owner between
\* runs changes the value of at most one declared name.
C24StoreNamesFixed ==
    [][/\ DOMAIN variables' = DOMAIN variables
       /\ DOMAIN variables' = {<<"count">>, <<"name">>, <<"ok">>, <<"flag">>}
       /\ (Executed /\ NewEntry.command.type = "variable"
                    /\ NewEntry.command.name \notin DOMAIN variables)
             => variables' = variables
       /\ (Executed /\ NewEntry.command.type # "variable") => variables' = variables
       /\ \A name \in ModifyNames \ DOMAIN variables, value \in ModifyValues :
             EntryAndModify(variables, name, value) = variables
       /\ (log' = log /\ wPc' = wPc) =>
             \E name \in DOMAIN variables :
                \A other \in DOMAIN variables \ {name} : variables'[other] = variables[other]
      ]_allvars

\* the owner has set count and flag, a run has applied "+" to the
\* undeclared ghost and has substituted variables into arguments
C24Witness ==
    /\ wPc = "done"
    /\ variables[<<"flag">>] = Some(IntegerValue(7))
    /\ variables[<<"count">>] = Some(IntegerValue(10))
    /\ \E k \in DOMAIN log : log[k].command = CmdAddGhost
    /\ \E k \in DOMAIN log : log[k].command = CmdTests /\ log[k].args[1] = <<"10">>

\* ===========================================================================
\* The daemon again (Spec): score reports and sandbox handles
\* ===========================================================================

\* C25: whatever create, start and wait return, one execution issues at
\* most one score report.
C25AtMostOneReport ==
    \A i \in DOMAIN tasks : CountOp(Calls(i), "update_score") <= 1

\* execution i made a create call that returned res
Created(i, res) ==
    \E m \in DOMAIN Calls(i) : IsResult(Calls(i)[m], "create_container", res)

\* execution i stopped or removed the container of that name
TornDown(i, name) ==
    \E k \in DOMAIN Calls(i) :
        /\ Calls(i)[k].op \in {"stop_container", "remove_container"}
        /\ Calls(i)[k].arg = name

\* C27: an execution never stops or removes the sandbox a sibling of the
\* same poll cycle has created: an execution whose own create failed tears
\* down no container that another execution created.
C27NoSiblingTeardown ==
    \A i, j \in DOMAIN tasks :
        (i # j /\ Created(i, "err") /\ Created(j, "ok")) =>
            ~TornDown(i, ContainerName(UserOf(j)))

\* ===========================================================================
\* The daemon under fair scheduling
\* ===========================================================================

\* a call of execution i returns and the execution goes on
TaskProgress(i) ==
    /\ i \in DOMAIN tasks
    /\ \/ CreateContainer(i)
       \/ ScoreCreateError(i)
       \/ StartContainer(i)
       \/ ScoreStartError(i)
       \/ WaitContainer(i)
       \/ StopContainer(i)
       \/ RemoveContainer(i)
       \/ ScoreTimeout(i)
    /\ UNCHANGED notDaemon

\* The tokio runtime polls every spawned task and main again once the call
\* it awaits has returned, and the calls return: requests to the server,
\* calls to the Docker daemon, interval.tick(), and the wait on the sandbox,
\* which timeout() ends at the deadline.  A panic is never forced.
Fairness ==
    /\ WF_allvars(FetchPage /\ UNCHANGED notDaemon)
    /\ WF_allvars(Spawn /\ UNCHANGED notDaemon)
    /\ WF_allvars(SpawnDone /\ UNCHANGED notDaemon)
    /\ WF_allvars(Join /\ UNCHANGED notDaemon)
    /\ WF_allvars(RunnerReturn /\ UNCHANGED notDaemon)
    /\ WF_allvars(Tick /\ UNCHANGED notDaemon)
    /\ \A i \in 1..MaxSubs : WF_allvars(TaskProgress(i))

SpecLive == DaemonInit /\ [][Next]_allvars /\ Fairness

\* C26: every launched execution reaches a terminal state, the join loop of
\* every poll cycle completes, and the next cycle's fetch begins.
C26EveryExecutionEnds ==
    /\ \A i \in 1..MaxSubs :
          (i \in DOMAIN tasks) ~> (i \in DOMAIN tasks /\ tasks[i].pc \in Terminal)
    /\ (mainPc = "join") ~> (mainPc = "tick")
    /\ (mainPc = "tick") ~> (mainPc = "fetch" /\ tasks = <<>>)

\* a poll cycle is over in which one execution ran into the timeout and was
\* torn down and another one saw its sandbox exit
C26Witness ==
    /\ mainPc = "tick"
    /\ Len(tasks) = 2
    /\ joined = 2
    /\ tasks[1].pc = "done"
    /\ tasks[2].pc = "done"
    /\ \E k \in DOMAIN Calls(1) : IsResult(Calls(1)[k], "wait_container", "timeout")
    /\ \E k \in DOMAIN Calls(1) : IsReport(Calls(1)[k], TimeoutComment)
    /\ \E k \in DOMAIN Calls(2) : IsResult(Calls(2)[k], "wait_container", "exited")

\* ===========================================================================
\* Two Tasks sharing one store and running concurrently: where Task::run
\* takes and drops the MutexGuard (src/src/worker.rs).  The guard taken in
\* the substitution closure is a temporary of the assignment to one argument
\* and is dropped at its end; the guard of a VariableOp is a local of the
\* `if operation == "+"` block and is dropped at the block's end.
\* ===========================================================================

Procs == {1, 2}

\* the command lists of the concurrent Tasks
LockTaskLists ==
    { <<CmdAddCount, CmdTests, CmdAddCount>>,
      <<CmdDiff, CmdAddCount>>,
      <<CmdAddCount, CmdEchoFlag>>,
      <<CmdAddName, CmdSubCount, CmdAddCount>> }

\* Task::new(name, commands, variables)
NewProc(commands) ==
    [cmds |-> commands, cmd |-> 1, pc |-> "begin", arg |-> 0, args |-> <<>>, local |-> None]

\* the first argument at or after position from that begins with var::
NextMarked(args, from) ==
    IF \E k \in from..Len(args) : StartsWithMarker(args[k])
    THEN CHOOSE k \in from..Len(args) :
            /\ StartsWithMarker(args[k])
            /\ \A m \in from..(k - 1) : ~StartsWithMarker(args[m])
    ELSE 0

\* mutant: lock() does not wait for the guard to be dropped
CanLockAlways(p) == TRUE

\* Mutex::lock() returns when no other guard is alive
CanLock(p) == holder = 0

\* the command the Task is at
LCmd(p) == lProcs[p].cmds[lProcs[p].cmd]

\* the top of `for command in &self.commands`: the loop ends (Passed), a
\* VariableOp "+" goes for the lock, any other VariableOp does nothing, a
\* Builtin or Custom clones its args and looks for the first var:: argument
LBegin(p) ==
    /\ lProcs[p].pc = "begin"
    /\ IF lProcs[p].cmd > Len(lProcs[p].cmds)
       THEN lProcs' = [lProcs EXCEPT ![p].pc = "done"]
       ELSE IF LCmd(p).type = "variable"
       THEN IF LCmd(p).operation = "+"
            THEN lProcs' = [lProcs EXCEPT ![p].pc = "op"]
            ELSE lProcs' = [lProcs EXCEPT ![p].cmd = @ + 1]
       ELSE LET args == UnwrapOrDefault(LCmd(p).args, <<>>)
                k == NextMarked(args, 1)
            IN  lProcs' = [lProcs EXCEPT ![p].args = args, ![p].arg = k,
                                         ![p].pc = IF k = 0 THEN "dispatch" ELSE "sub"]
    /\ UNCHANGED <<holder, poisoned, lStore, added>>

\* self.variables.lock().expect(..): waits for the guard; on a poisoned
\* Mutex lock() returns Err and expect panics
LAcquire(p) ==
    /\ lProcs[p].pc \in {"sub", "op"}
    /\ IF poisoned
       THEN lProcs' = [lProcs EXCEPT ![p].pc = "panicked"] /\ UNCHANGED holder
       ELSE /\ CanLock(p)
            /\ holder' = p
            /\ lProcs' = [lProcs EXCEPT ![p].pc = IF @ = "sub" THEN "sub_locked" ELSE "op_locked"]
    /\ UNCHANGED <<poisoned, lStore, added>>

\* the rest of `*arg = ...;` for one argument: the lookup (a panic here
\* unwinds with the guard alive and poisons the Mutex), the rendering, and
\* the drop of the guard at the end of the statement
LSubstituteArg(p) ==
    /\ lProcs[p].pc = "sub_locked"
    /\ holder' = 0
    /\ LET k == lProcs[p].arg
           a == lProcs[p].args[k]
       IN  IF LookupPanics(a, lStore)
           THEN /\ poisoned' = TRUE
                /\ lProcs' = [lProcs EXCEPT ![p].pc = "panicked"]
           ELSE LET args == [lProcs[p].args EXCEPT
                                ![k] = TrimMatches(ValueToString(lStore[ReplaceMarker(a)][1]), Quote)]
                    n == NextMarked(args, k + 1)
                IN  /\ lProcs' = [lProcs EXCEPT ![p].args = args, ![p].arg = n,
                                                ![p].pc = IF n = 0 THEN "dispatch" ELSE "sub"]
                    /\ UNCHANGED poisoned
    /\ UNCHANGED <<lStore, added>>

\* builtin.execute(action, args) / Command::output() is called: the Task
\* is suspended in it
LDispatch(p) ==
    /\ lProcs[p].pc = "dispatch"
    /\ lProcs' = [lProcs EXCEPT ![p].pc = "running"]
    /\ UNCHANGED <<holder, poisoned, lStore, added>>

\* the action or executable is over: a success goes to the next command, a
\* failure returns from Task::run
LComplete(p) ==
    /\ lProcs[p].pc = "running"
    /\ \E ok \in BOOLEAN :
         lProcs' = IF ok THEN [lProcs EXCEPT ![p].pc = "begin", ![p].cmd = @ + 1]
                   ELSE [lProcs EXCEPT ![p].pc = "done"]
    /\ UNCHANGED <<holder, poisoned, lStore, added>>

\* variables.get_mut(name) and `let current_int = *num`
LRead(p) ==
    /\ lProcs[p].pc = "op_locked"
    /\ lProcs' = [lProcs EXCEPT
                    ![p].local = IF LCmd(p).name \in DOMAIN lStore
                                 THEN Some(lStore[LCmd(p).name]) ELSE None,
                    ![p].pc = "op_read"]
    /\ UNCHANGED <<holder, poisoned, lStore, added>>

\* `*current_value = Some(Value::Integer(current_int + *value as i64))` for
\* an integer, nothing otherwise; the guard is dropped at the end of the block
LWrite(p) ==
    /\ lProcs[p].pc = "op_read"
    /\ LET read == lProcs[p].local
           isInteger == IF read = None THEN FALSE
                        ELSE IF read[1] = None THEN FALSE
                        ELSE read[1][1].type = "Integer"
       IN  IF isInteger
           THEN /\ lStore' = [lStore EXCEPT ![LCmd(p).name] =
                                 Some(IntegerValue(read[1][1].v + LCmd(p).value))]
                /\ added' = added + LCmd(p).value
           ELSE UNCHANGED <<lStore, added>>
    /\ holder' = 0
    /\ lProcs' = [lProcs EXCEPT ![p].pc = "begin", ![p].cmd = @ + 1, ![p].local = None]
    /\ UNCHANGED poisoned

\* two Tasks built over one store
LInit ==
    /\ lProcs \in [Procs -> {NewProc(l) : l \in LockTaskLists}]
    /\ holder = 0
    /\ poisoned = FALSE
    /\ lStore = InitialVariables
    /\ added = 0

LNext ==
    \/ \E p \in Procs : LBegin(p) /\ UNCHANGED notLock
    \/ \E p \in Procs : LAcquire(p) /\ UNCHANGED notLock
    \/ \E p \in Procs : LSubstituteArg(p) /\ UNCHANGED notLock
    \/ \E p \in Procs : LDispatch(p) /\ UNCHANGED notLock
    \/ \E p \in Procs : LComplete(p) /\ UNCHANGED notLock
    \/ \E p \in Procs : LRead(p) /\ UNCHANGED notLock
    \/ \E p \in Procs : LWrite(p) /\ UNCHANGED notLock

LockInit == LInit /\ Init /\ WorkerParked /\ CanvasParked

SpecLock == LockInit /\ [][LNext]_allvars

LTypeOK ==
    /\ holder \in Procs \cup {0}
    /\ poisoned \in BOOLEAN
    /\ DOMAIN lStore = DOMAIN InitialVariables
    /\ \A p \in Procs : lProcs[p].cmd \in 1..(Len(lProcs[p].cmds) + 1)

\* the Task holds the guard
Holds(p) == holder = p

\* the Task is past the lock() and before the drop of the guard
InGuardedWindow(p) == lProcs[p].pc \in {"sub_locked", "op_locked", "op_read"}

\* C28: a Task holds the guard only inside a single lookup or a single
\* read-modify-write, never while its Builtin action or Custom executable
\* is dispatched or running; as long as a Task has work to do some Task can
\* take a step; and the count is its initial value plus every delta that
\* was applied.
C28GuardShortAndAtomic ==
    /\ \A p \in Procs : Holds(p) => InGuardedWindow(p)
    /\ \A p \in Procs : lProcs[p].pc \in {"dispatch", "running"} => ~Holds(p)
    /\ \A p, q \in Procs : (InGuardedWindow(p) /\ InGuardedWindow(q)) => p = q
    /\ (\E p \in Procs : lProcs[p].pc \notin {"done", "panicked"}) => ENABLED LNext
    /\ lStore[<<"count">>] = Some(IntegerValue(5 + added))

\* one Task is inside its read-modify-write while the other's executable
\* is running, and one increment has already been applied
C28Witness ==
    /\ added = 3
    /\ \E p, q \in Procs :
        /\ lProcs[p].pc = "running"
        /\ lProcs[q].pc = "op_read"
        /\ Holds(q)

\* ===========================================================================
\* The pipeline definition during a run
\* ===========================================================================

\* the command was given arguments other than the declared ones
Substituted(e) ==
    /\ e.command.type \in {"builtin", "custom"}
    /\ e.args # UnwrapOrDefault(e.command.args, <<>>)

\* C29: once Worker::run has been called no step changes any Task: the
\* names, the command lists with their var:: references and
\* abort_on_failure flags, and the order of the Tasks stay as declared;
\* before the run add_task only appends.
C29DefinitionUnchangedByRun ==
    [][/\ wPc # "build" => wTasks' = wTasks
       /\ wPc = "build" => \/ wTasks' = wTasks
                           \/ /\ Len(wTasks') = Len(wTasks) + 1
                              /\ SubSeq(wTasks', 1, Len(wTasks)) = wTasks]_allvars

\* a run of two Tasks is over after a command that ran with substituted
\* arguments failed, and a var:: reference is still in the declaration
C29Witness ==
    /\ wPc = "done"
    /\ Len(wTasks) = 2
    /\ \E k \in DOMAIN log :
        /\ Substituted(log[k])
        /\ log[k].outcome = "failed"
        /\ \E a \in DOMAIN wTasks[log[k].task].commands[log[k].cmd].args[1] :
             StartsWithMarker(wTasks[log[k].task].commands[log[k].cmd].args[1][a])

====
